---- MODULE Spec2Model ----
(***************************************************************************)
(* Model of the theme toggler (src/src/theme/index.tsx) and of the request *)
(* helpers mergeHeaders and withLocale (src/unnamed/part_000).             *)
(*                                                                         *)
(* JavaScript values are tagged records [t |-> type, v |-> text] so that   *)
(* typeof, truthiness and strict equality are computed as the code does.   *)
(***************************************************************************)
EXTENDS Integers, Sequences, FiniteSets, TLC

VARIABLES
    \* ---- browser and server of the theme subsystem
    browserCookie,  \* the __theme cookie held by the browser
    osDark,         \* window.matchMedia(preferDarkMQ).matches
    visits,         \* the page responses the server has rendered, in order
    dom,            \* what the inline script did to the document of the last page
    phase,          \* the page and its ThemeProvider: "none", "loader", "served",
                    \* "response", "rendered", "mounted", "unmounted"
    provSsr,        \* ThemeProvider's ssrTheme prop
    theme,          \* ThemeProvider's theme state
    mounted,        \* ThemeProvider's mounted ref
    subscribed,     \* whether the media-query change handler is registered
    doc,            \* what SSRTheme rendered last (server render or client render)
    effectPending,  \* a commit changed theme and its effect on [theme] has not run yet
    inflight,       \* POSTs issued by the provider and not yet answered, each with
                    \* the progress of its setThemeAction call
    responses,      \* responses of setThemeAction not yet applied by the browser
    log,            \* each POST the provider issued, in issue order: the theme it
                    \* carries and the page visit whose provider issued it
    lastApplied,    \* index in log of the POST whose Set-Cookie was applied last (0: none)
    \* ---- direct calls at the server boundary
    lastAction,     \* the last direct call of setThemeAction: its progress and the
                    \* cookie its caller holds
    lastRead,       \* the last direct getThemeSession(request) and getTheme()
    \* ---- mergeHeaders
    heap,           \* header containers by reference
    mergeCall,      \* the last mergeHeaders call: argument, contents before, returned reference
    \* ---- withLocale
    localeCall      \* the last withLocale call: header entries, header text, result

flowVars == <<browserCookie, osDark, visits, dom, phase, provSsr, theme, mounted,
              subscribed, doc, effectPending, inflight, responses, log, lastApplied>>
boundaryVars == <<lastAction, lastRead>>
headerVars == <<heap, mergeCall>>
localeVars == <<localeCall>>
vars == <<flowVars, boundaryVars, headerVars, localeVars>>

----------------------------------------------------------------------------
\* Bounds of the model
\* Page visits plus POSTs issued in one behaviour
MaxOps == 3
MaxEntries == 2
MaxHeaders == 2

----------------------------------------------------------------------------
\* JavaScript values

Null == [t |-> "null", v |-> ""]
Undefined == [t |-> "undefined", v |-> ""]
Str(s) == [t |-> "string", v |-> s]
Num(s) == [t |-> "number", v |-> s]

\* ToBoolean of a value
Truthy(x) ==
    CASE x.t = "string" -> x.v # ""
      [] x.t = "number" -> x.v # "0"
      [] OTHER -> FALSE

\* enum Theme
DARK == "dark"
LIGHT == "light"

\* Object.values(Theme)
themes == {DARK, LIGHT}

\* themes.includes(x): strict equality with a member of themes
Includes(x) == x.t = "string" /\ x.v \in themes

isThemeAnyString(x) == x.t = "string"

isTheme(x) == x.t = "string" /\ Includes(x)

getPreferredTheme(matches) == IF matches THEN Str(DARK) ELSE Str(LIGHT)

\* The values a session or a request body may carry in its theme field
ForeignValues == {Undefined, Null, Str(""), Str("blue"), Num("1")}
AnyValues == {Str(DARK), Str(LIGHT)} \cup ForeignValues

----------------------------------------------------------------------------
\* Cookie session storage (createCookieSessionStorage)

\* A Cookie header value: absent, or a payload with a signature that verifies or not
NoCookie == [present |-> FALSE, valid |-> FALSE, theme |-> Undefined]
CookieValues == {Undefined, Str(DARK), Str(LIGHT), Str("blue")}
Cookies == {NoCookie} \cup [present : {TRUE}, valid : BOOLEAN, theme : CookieValues]

\* getSession: an absent cookie or one whose signature fails gives an empty session
getSession(cookie) ==
    IF cookie.present /\ cookie.valid THEN [theme |-> cookie.theme]
    ELSE [theme |-> Undefined]

\* commitSession: the session serialised and signed
commitSession(session) == [present |-> TRUE, valid |-> TRUE, theme |-> session.theme]

\* getThemeSession(request).getTheme()
getTheme(session) == IF isTheme(session.theme) THEN session.theme ELSE Null

setThemeKeepFirst(session, t) ==
    IF session.theme = Undefined THEN [session EXCEPT !.theme = t] ELSE session

\* getThemeSession(request).setTheme(theme)
setTheme(session, t) == [session EXCEPT !.theme = t]

----------------------------------------------------------------------------
\* setThemeAction

Paths == {"/_actions/set-theme", "/settings"}

\* A request body: text that is no JSON, or the JSON value it parses to
Bodies ==
    [kind : {"malformed", "null", "falsy", "primitive"}, theme : {Undefined}]
        \cup [kind : {"object"}, theme : AnyValues]

ThemeBody(t) == [kind |-> "object", theme |-> t]

\* JSON.stringify({ theme }): a key whose value is undefined is left out
Stringify(t) == ThemeBody(t)

Requests == [path : Paths, cookie : Cookies, body : Bodies]

\* ToBoolean of the parsed body
DataTruthy(data) == data.kind \in {"primitive", "object"}

Redirect(url) == [kind |-> "redirect", location |-> url, hasSetCookie |-> FALSE,
                  setCookie |-> NoCookie]
RedirectWith(url, cookie) == [kind |-> "redirect", location |-> url,
                              hasSetCookie |-> TRUE, setCookie |-> cookie]
Throw == [kind |-> "throw", location |-> "", hasSetCookie |-> FALSE,
          setCookie |-> NoCookie]

\* data.theme of a parsed body that is not null: a primitive has no such property
DataTheme(data) == IF data.kind = "object" THEN data.theme ELSE Undefined

\* A call of setThemeAction in progress: pc names the await it is suspended at
\* ("json": request.json(), "session": getThemeSession -> getSession,
\* "commit": themeSession.commit()), or "done" once it has returned or rejected
NoResult == [kind |-> "none", location |-> "", hasSetCookie |-> FALSE,
             setCookie |-> NoCookie]
NewCall(request) == [request |-> request, pc |-> "json",
                     session |-> [theme |-> Undefined], result |-> NoResult]
Done(call, result) == [call EXCEPT !.pc = "done", !.result = result]

setThemeActionStepUnchecked(call) ==
    CASE call.pc = "json" ->
             IF call.request.body.kind \in {"malformed", "null"} THEN Done(call, Throw)
             ELSE [call EXCEPT !.pc = "session"]
      [] call.pc = "session" ->
             [call EXCEPT !.pc = "commit",
                          !.session = setTheme(getSession(call.request.cookie),
                                               DataTheme(call.request.body))]
      [] call.pc = "commit" ->
             Done(call, RedirectWith(call.request.path, commitSession(call.session)))
      [] OTHER -> call

\* setThemeAction from one await to the next
setThemeActionStep(call) ==
    LET redirectURL == call.request.path
        data == call.request.body
    IN  CASE call.pc = "json" ->
                 IF data.kind = "malformed" THEN Done(call, Throw)
                                             \* request.json() rejects
                 ELSE IF ~DataTruthy(data) /\ data.kind = "null" THEN Done(call, Throw)
                                             \* data || data.theme reads a property of null
                 ELSE IF ~(DataTruthy(data) \/ Truthy(DataTheme(data)))
                      THEN Done(call, Redirect(redirectURL))
                 ELSE IF ~isTheme(DataTheme(data)) THEN Done(call, Redirect(redirectURL))
                 ELSE [call EXCEPT !.pc = "session"]
          [] call.pc = "session" ->
                 [call EXCEPT !.pc = "commit",
                              !.session = setTheme(getSession(call.request.cookie),
                                                   DataTheme(data))]
          [] call.pc = "commit" ->
                 Done(call, RedirectWith(redirectURL, commitSession(call.session)))
          [] OTHER -> call

\* The cookie a client holds after a response: Set-Cookie replaces it
JarAfter(cookie, result) == IF result.hasSetCookie THEN result.setCookie ELSE cookie

----------------------------------------------------------------------------
\* ThemeProvider, SSRTheme and the inline script

\* The initialiser of React.useState in ThemeProvider; hasWindow is
\* typeof window === 'object', matches the dark media query
ThemeProviderInit(ssrTheme, hasWindow, matches) ==
    IF Truthy(ssrTheme)
    THEN (IF Includes(ssrTheme) THEN ssrTheme ELSE Null)
    ELSE IF ~hasWindow THEN Null
    ELSE getPreferredTheme(matches)

ThemeEffectNoGuard(mountedRef) == [mounted |-> TRUE, post |-> TRUE]

\* The effect on [theme]: the first run sets the mounted ref and returns,
\* every later run issues the POST
ThemeEffect(mountedRef) ==
    IF ~mountedRef THEN [mounted |-> TRUE, post |-> FALSE]
    ELSE [mounted |-> mountedRef, post |-> TRUE]

SSRThemeScriptAlways(ssrTheme, t) ==
    [meta |-> IF ~Truthy(t) \/ t = Str(DARK) THEN "dark light" ELSE "light dark",
     script |-> TRUE]

SSRThemeMetaFromProp(ssrTheme, t) ==
    [meta |-> IF ~Truthy(ssrTheme) \/ ssrTheme = Str(DARK) THEN "dark light"
              ELSE "light dark",
     script |-> ~Truthy(ssrTheme)]

\* What SSRTheme renders: the content of the color-scheme meta tag and
\* whether the inline script element is rendered
SSRTheme(ssrTheme, t) ==
    [meta |-> IF ~Truthy(t) \/ t = Str(DARK) THEN "dark light" ELSE "light dark",
     script |-> ~Truthy(ssrTheme)]

\* ssrThemeScript run in a document: the class added to the root element and
\* the content the meta tag is given
ssrThemeScript(matches) ==
    LET t == IF matches THEN "dark" ELSE "light"
    IN  [cls |-> t, meta |-> IF t = "dark" THEN "dark light" ELSE "light dark"]

NoDom == [cls |-> "", meta |-> ""]
NoDoc == [meta |-> "", script |-> FALSE]

ActionPath == "/_actions/set-theme"

\* fetch('/_actions/set-theme?...', { method: 'POST', body: JSON.stringify({ theme }) })
Post(t) ==
    /\ Len(visits) + Len(log) < MaxOps
    /\ log' = Append(log, [theme |-> t, visit |-> Len(visits)])
    /\ inflight' = inflight \cup
           {[id |-> Len(log) + 1,
             call |-> NewCall([path |-> ActionPath, cookie |-> browserCookie,
                               body |-> Stringify(t)])]}

\* The effect on [theme] run for a commit in which theme is t
RunThemeEffect(t) ==
    LET e == ThemeEffect(mounted)
    IN  /\ mounted' = e.mounted
        /\ IF e.post THEN Post(t) ELSE UNCHANGED <<log, inflight>>

\* React runs the effects of the last commit before it renders again
FlushEffect ==
    IF effectPending THEN RunThemeEffect(theme) ELSE UNCHANGED <<mounted, log, inflight>>

\* setTheme(t) of the provider's state: equal state bails out; a new state is
\* rendered (SSRTheme reads the context) and committed, and the effect on
\* [theme] is left to run in a later callback
StateUpdate(t) ==
    IF t = theme
    THEN UNCHANGED <<theme, doc, mounted, log, inflight, effectPending>>
    ELSE /\ Len(visits) + Len(log) + (IF effectPending THEN 1 ELSE 0) < MaxOps
         /\ FlushEffect
         /\ theme' = t
         /\ doc' = SSRTheme(provSsr, t)
         /\ effectPending' = TRUE

\* The theme that came with the Set-Cookie applied last (Undefined: none applied)
Via == IF lastApplied = 0 THEN Undefined ELSE log[lastApplied].theme

----------------------------------------------------------------------------
\* Actions of the theme subsystem

\* The browser requests a page with its cookie; the loader calls
\* getThemeSession, which awaits getSession
RequestPage ==
    /\ phase \in {"none", "unmounted"}
    /\ Len(visits) + Len(log) < MaxOps
    /\ visits' = Append(visits,
           [cookie |-> browserCookie, via |-> Via,
            served |-> FALSE, ssrTheme |-> Null, theme |-> Null, meta |-> "",
            script |-> FALSE,
            loaded |-> FALSE, osLoad |-> FALSE, cls |-> "",
            hydrated |-> FALSE, osHydrate |-> FALSE, initial |-> Null])
    /\ phase' = "loader"
    /\ UNCHANGED <<browserCookie, osDark, dom, provSsr, theme, mounted, subscribed,
                   doc, effectPending, inflight, responses, log, lastApplied>>
    /\ UNCHANGED <<boundaryVars, headerVars, localeVars>>

\* getSession has settled: the loader reads getTheme() and the server renders
\* ThemeProvider and SSRTheme without a window
ServerRender ==
    /\ phase = "loader"
    /\ LET ssr == getTheme(getSession(visits[Len(visits)].cookie))
           t == ThemeProviderInit(ssr, FALSE, FALSE)
           out == SSRTheme(ssr, t)
       IN  /\ visits' = [visits EXCEPT ![Len(visits)] =
                  [@ EXCEPT !.served = TRUE, !.ssrTheme = ssr, !.theme = t,
                            !.meta = out.meta, !.script = out.script]]
           /\ provSsr' = ssr
           /\ theme' = t
           /\ doc' = out
    /\ phase' = "served"
    /\ mounted' = FALSE
    /\ UNCHANGED <<browserCookie, osDark, dom, subscribed, effectPending, inflight,
                   responses, log, lastApplied>>
    /\ UNCHANGED <<boundaryVars, headerVars, localeVars>>

\* The response reaches the browser, which runs the inline script if sent
Load ==
    /\ phase = "served"
    /\ dom' = IF doc.script THEN ssrThemeScript(osDark)
              ELSE [cls |-> "", meta |-> doc.meta]
    /\ visits' = [visits EXCEPT ![Len(visits)] =
           [@ EXCEPT !.loaded = TRUE, !.osLoad = osDark, !.cls = dom'.cls]]
    /\ phase' = "response"
    /\ UNCHANGED <<browserCookie, osDark, provSsr, theme, mounted, subscribed, doc,
                   effectPending, inflight, responses, log, lastApplied>>
    /\ UNCHANGED <<boundaryVars, headerVars, localeVars>>

\* The first client render of ThemeProvider with the server's ssrTheme
Hydrate ==
    /\ phase = "response"
    /\ LET t == ThemeProviderInit(provSsr, TRUE, osDark)
       IN  /\ theme' = t
           /\ doc' = SSRTheme(provSsr, t)
           /\ visits' = [visits EXCEPT ![Len(visits)] =
                  [@ EXCEPT !.hydrated = TRUE, !.osHydrate = osDark, !.initial = t]]
    /\ phase' = "rendered"
    /\ UNCHANGED <<browserCookie, osDark, dom, provSsr, mounted, subscribed,
                   effectPending, inflight, responses, log, lastApplied>>
    /\ UNCHANGED <<boundaryVars, headerVars, localeVars>>

\* The effects of the first commit: the mount guard and the subscription
Mount ==
    /\ phase = "rendered"
    /\ RunThemeEffect(theme)
    /\ subscribed' = TRUE
    /\ phase' = "mounted"
    /\ UNCHANGED <<browserCookie, osDark, visits, dom, provSsr, theme, doc,
                   effectPending, responses, lastApplied>>
    /\ UNCHANGED <<boundaryVars, headerVars, localeVars>>

\* A consumer of the context calls the setter
SetTheme(t) ==
    /\ phase = "mounted"
    /\ StateUpdate(t)
    /\ UNCHANGED <<browserCookie, osDark, visits, dom, phase, provSsr, subscribed,
                   responses, lastApplied>>
    /\ UNCHANGED <<boundaryVars, headerVars, localeVars>>

\* The OS preference changes; the change handler runs if it is registered
OSChange ==
    /\ osDark' = ~osDark
    /\ IF subscribed
       THEN StateUpdate(IF osDark' THEN Str(DARK) ELSE Str(LIGHT))
       ELSE UNCHANGED <<theme, doc, mounted, log, inflight, effectPending>>
    /\ UNCHANGED <<browserCookie, visits, dom, phase, provSsr, subscribed,
                   responses, lastApplied>>
    /\ UNCHANGED <<boundaryVars, headerVars, localeVars>>

\* The effect on [theme] of the last commit runs
RunEffect ==
    /\ phase = "mounted"
    /\ effectPending
    /\ RunThemeEffect(theme)
    /\ effectPending' = FALSE
    /\ UNCHANGED <<browserCookie, osDark, visits, dom, phase, provSsr, theme,
                   subscribed, doc, responses, lastApplied>>
    /\ UNCHANGED <<boundaryVars, headerVars, localeVars>>

UnmountKeepsHandler ==
    /\ phase = "mounted"
    /\ FlushEffect
    /\ effectPending' = FALSE
    /\ phase' = "unmounted"
    /\ UNCHANGED <<browserCookie, osDark, visits, dom, provSsr, theme,
                   subscribed, doc, responses, lastApplied>>
    /\ UNCHANGED <<boundaryVars, headerVars, localeVars>>

\* Teardown: pending effects run, then the cleanup of the subscription effect
Unmount ==
    /\ phase = "mounted"
    /\ FlushEffect
    /\ effectPending' = FALSE
    /\ phase' = "unmounted"
    /\ subscribed' = FALSE
    /\ UNCHANGED <<browserCookie, osDark, visits, dom, provSsr, theme,
                   doc, responses, lastApplied>>
    /\ UNCHANGED <<boundaryVars, headerVars, localeVars>>

\* The server resumes setThemeAction for one of the POSTs in flight and runs
\* it to its next await, or to its return
ServerStep ==
    /\ \E r \in inflight :
          LET c == setThemeActionStep(r.call)
          IN  IF c.pc = "done"
              THEN /\ inflight' = inflight \ {r}
                   /\ responses' = responses \cup {[id |-> r.id, result |-> c.result]}
              ELSE /\ inflight' = (inflight \ {r}) \cup {[id |-> r.id, call |-> c]}
                   /\ UNCHANGED responses
    /\ UNCHANGED <<browserCookie, osDark, visits, dom, phase, provSsr, theme,
                   mounted, subscribed, doc, effectPending, log, lastApplied>>
    /\ UNCHANGED <<boundaryVars, headerVars, localeVars>>

\* The browser receives one of the responses and applies its Set-Cookie
ApplyResponse ==
    /\ \E r \in responses :
          /\ responses' = responses \ {r}
          /\ browserCookie' = JarAfter(browserCookie, r.result)
          /\ lastApplied' = IF r.result.hasSetCookie THEN r.id ELSE lastApplied
    /\ UNCHANGED <<osDark, visits, dom, phase, provSsr, theme, mounted, subscribed,
                   doc, effectPending, inflight, log>>
    /\ UNCHANGED <<boundaryVars, headerVars, localeVars>>

----------------------------------------------------------------------------
\* Idle values of the parts a specification does not use

NoAction == [stage |-> "idle",
             call |-> NewCall([path |-> ActionPath, cookie |-> NoCookie,
                               body |-> ThemeBody(Undefined)]),
             jar |-> NoCookie]
NoRead == [stage |-> "idle", cookie |-> NoCookie, session |-> [theme |-> Undefined],
           theme |-> Null]
NoMerge == [called |-> FALSE, ref |-> 1, value |-> Null, ret |-> 0,
            before |-> [shape |-> "Array", entries |-> <<>>]]
NoLocale == [called |-> FALSE, entries |-> <<>>,
             header |-> [present |-> FALSE, text |-> <<>>], result |-> <<>>]

FlowRest ==
    /\ visits = <<>>
    /\ dom = NoDom
    /\ phase = "none"
    /\ provSsr = Null
    /\ theme = Null
    /\ mounted = FALSE
    /\ subscribed = FALSE
    /\ doc = NoDoc
    /\ effectPending = FALSE
    /\ inflight = {}
    /\ responses = {}
    /\ log = <<>>
    /\ lastApplied = 0

\* The browser may hold any cookie from earlier sessions; the OS either preference
InitFlow == browserCookie \in Cookies /\ osDark \in BOOLEAN /\ FlowRest

IdleFlow == browserCookie = NoCookie /\ osDark = FALSE /\ FlowRest

InitBoundary == lastAction = NoAction /\ lastRead = NoRead
IdleBoundary == InitBoundary
IdleHeaders == heap = <<>> /\ mergeCall = NoMerge
IdleLocale == localeCall = NoLocale

Init == InitFlow /\ IdleBoundary /\ IdleHeaders /\ IdleLocale

Next ==
    \/ RequestPage
    \/ ServerRender
    \/ Load
    \/ Hydrate
    \/ Mount
    \/ \E t \in {Str(DARK), Str(LIGHT), Null} : SetTheme(t)
    \/ OSChange
    \/ RunEffect
    \/ Unmount
    \/ ServerStep
    \/ ApplyResponse

Spec == Init /\ [][Next]_vars

----------------------------------------------------------------------------
\* The server boundary called directly, and ThemeProvider given any ssrTheme

\* A client holding request.cookie calls setThemeAction, which starts by
\* awaiting request.json()
StartAction(request) ==
    /\ lastAction.stage \in {"idle", "applied"}
    /\ lastAction' = [stage |-> "running", call |-> NewCall(request),
                      jar |-> request.cookie]
    /\ UNCHANGED <<flowVars, lastRead, headerVars, localeVars>>

\* The call resumes and runs to its next await, or returns
ActionStep ==
    /\ lastAction.stage = "running"
    /\ LET c == setThemeActionStep(lastAction.call)
       IN  lastAction' = [lastAction EXCEPT
               !.call = c,
               !.stage = IF c.pc = "done" THEN "returned" ELSE "running"]
    /\ UNCHANGED <<flowVars, lastRead, headerVars, localeVars>>

\* The client applies the Set-Cookie of the response
ActionApply ==
    /\ lastAction.stage = "returned"
    /\ lastAction' = [lastAction EXCEPT
           !.stage = "applied",
           !.jar = JarAfter(lastAction.jar, lastAction.call.result)]
    /\ UNCHANGED <<flowVars, lastRead, headerVars, localeVars>>

\* A loader calls getThemeSession(request), which awaits getSession
StartRead(cookie) ==
    /\ lastRead.stage \in {"idle", "read"}
    /\ lastRead' = [stage |-> "awaiting", cookie |-> cookie,
                    session |-> [theme |-> Undefined], theme |-> Null]
    /\ UNCHANGED <<flowVars, lastAction, headerVars, localeVars>>

\* getSession settles and getThemeSession returns the session's accessors
ReadSession ==
    /\ lastRead.stage = "awaiting"
    /\ lastRead' = [lastRead EXCEPT !.stage = "session",
                                    !.session = getSession(lastRead.cookie)]
    /\ UNCHANGED <<flowVars, lastAction, headerVars, localeVars>>

\* The loader calls getTheme() on the session it was given
ReadGetTheme ==
    /\ lastRead.stage = "session"
    /\ lastRead' = [lastRead EXCEPT !.stage = "read",
                                    !.theme = getTheme(lastRead.session)]
    /\ UNCHANGED <<flowVars, lastAction, headerVars, localeVars>>

\* ThemeProvider is rendered with any ssrTheme, on the server or in the browser
RenderProvider(ssrTheme, hasWindow) ==
    /\ phase = "none"
    /\ provSsr' = ssrTheme
    /\ theme' = ThemeProviderInit(ssrTheme, hasWindow, osDark)
    /\ doc' = SSRTheme(ssrTheme, theme')
    /\ phase' = IF hasWindow THEN "rendered" ELSE "response"
    /\ mounted' = FALSE
    /\ UNCHANGED <<browserCookie, osDark, visits, dom, subscribed, effectPending,
                   inflight, responses, log, lastApplied>>
    /\ UNCHANGED <<boundaryVars, headerVars, localeVars>>

\* Hydrate of a provider that RenderProvider rendered on the server
HydrateProvider ==
    /\ phase = "response"
    /\ theme' = ThemeProviderInit(provSsr, TRUE, osDark)
    /\ doc' = SSRTheme(provSsr, theme')
    /\ phase' = "rendered"
    /\ UNCHANGED <<browserCookie, osDark, visits, dom, provSsr, mounted, subscribed,
                   effectPending, inflight, responses, log, lastApplied>>
    /\ UNCHANGED <<boundaryVars, headerVars, localeVars>>

NextBoundary ==
    \/ \E b \in Bodies :
          StartAction([path |-> ActionPath, cookie |-> browserCookie, body |-> b])
    \/ ActionStep
    \/ ActionApply
    \/ StartRead(browserCookie)
    \/ ReadSession
    \/ ReadGetTheme
    \/ \E s \in AnyValues, w \in BOOLEAN : RenderProvider(s, w)
    \/ HydrateProvider
    \/ Mount
    \/ OSChange
    \/ RunEffect
    \/ Unmount

SpecBoundary == Init /\ [][NextBoundary]_vars

InitAction == IdleFlow /\ IdleBoundary /\ IdleHeaders /\ IdleLocale

NextAction ==
    \/ \E r \in Requests : StartAction(r)
    \/ ActionStep
    \/ ActionApply
    \/ \E c \in Cookies : StartRead(c)
    \/ ReadSession
    \/ ReadGetTheme

SpecAction == InitAction /\ [][NextAction]_vars

----------------------------------------------------------------------------
\* mergeHeaders

\* A header container is one of the three shapes of HeadersInit; its entries
\* are kept in insertion order. A Headers object holds its names in lower case,
\* a plain object holds each key once.
HeaderValues == {"a=1", "b=2"}
HeadersNames == {"set-cookie", "content-type"}
RawNames == {"Set-Cookie", "set-cookie", "Content-Type"}

\* The name as Headers compares it
Lower(name) ==
    CASE name = "Set-Cookie" -> "set-cookie"
      [] name = "Content-Type" -> "content-type"
      [] OTHER -> name

SeqsUpTo(S, n) == UNION {[1..k -> S] : k \in 0..n}

UniqueNames(es) == \A i, j \in DOMAIN es : es[i].name = es[j].name => i = j

Containers ==
    {[shape |-> "Headers", entries |-> es] :
        es \in SeqsUpTo([name : HeadersNames, value : HeaderValues], MaxHeaders)}
    \cup {[shape |-> "Array", entries |-> es] :
        es \in SeqsUpTo([name : RawNames, value : HeaderValues], MaxHeaders)}
    \cup {[shape |-> "Object", entries |-> es] :
        es \in {x \in SeqsUpTo([name : RawNames, value : HeaderValues], MaxHeaders) :
                   UniqueNames(x)}}

MergeValues == {Null, Str(""), Str("a=1"), Str("c=3")}

\* headers[key] = value on a plain object: an own key keeps its place and takes
\* the new value, a new key is added last
Assign(es, key, value) ==
    IF \E i \in DOMAIN es : es[i].name = key
    THEN [i \in DOMAIN es |-> IF es[i].name = key
                              THEN [name |-> key, value |-> value] ELSE es[i]]
    ELSE Append(es, [name |-> key, value |-> value])

\* mergeHeaders(headers, value) on the container at reference ref of heap h:
\* the heap afterwards and the reference returned
mergeHeaders(h, ref, value) ==
    IF ~Truthy(value) THEN [heap |-> h, ret |-> ref]
    ELSE LET c == h[ref]
             es == CASE c.shape = "Headers" ->
                           Append(c.entries, [name |-> Lower("Set-Cookie"),
                                              value |-> value.v])
                      [] c.shape = "Array" ->
                           Append(c.entries, [name |-> "Set-Cookie", value |-> value.v])
                      [] OTHER -> Assign(c.entries, "Set-Cookie", value.v)
         IN  [heap |-> [h EXCEPT ![ref] = [c EXCEPT !.entries = es]], ret |-> ref]

MergeHeadersCall ==
    /\ ~mergeCall.called
    /\ LET r == mergeHeaders(heap, mergeCall.ref, mergeCall.value)
       IN  /\ heap' = r.heap
           /\ mergeCall' = [mergeCall EXCEPT !.called = TRUE, !.ret = r.ret,
                                             !.before = heap[mergeCall.ref]]
    /\ UNCHANGED <<flowVars, boundaryVars, localeVars>>

InitHeaders ==
    /\ IdleFlow /\ IdleBoundary /\ IdleLocale
    /\ \E c \in Containers : heap = <<c>>
    /\ \E v \in MergeValues :
          mergeCall = [called |-> FALSE, ref |-> 1, value |-> v, ret |-> 0,
                       before |-> heap[1]]

SpecHeaders == InitHeaders /\ [][MergeHeadersCall]_vars

----------------------------------------------------------------------------
\* withLocale

\* Header text is a sequence of characters
EN_US == <<"e", "n", "-", "U", "S">>
FR == <<"f", "r">>
QU == <<"q", "u">>
LocaleTags == {EN_US, FR, QU}
NoQ == <<>>
Q08 == <<";", "q", "=", "0", ".", "8">>

\* One element of an accepted-language header: a tag, an optional quality
\* value and optional white space after the comma before it
HeaderEntries == [tag : LocaleTags, q : {NoQ, Q08}, space : BOOLEAN]

HeaderLists ==
    {es \in SeqsUpTo(HeaderEntries, MaxEntries) : Len(es) > 0 /\ ~es[1].space}

RECURSIVE HeaderText(_)
HeaderText(es) ==
    IF es = <<>> THEN <<>>
    ELSE LET e == es[Len(es)]
             front == SubSeq(es, 1, Len(es) - 1)
             item == (IF e.space THEN <<" ">> ELSE <<>>) \o e.tag \o e.q
         IN  IF front = <<>> THEN item ELSE HeaderText(front) \o <<",">> \o item

\* text.split(/[,;]/)
RECURSIVE Split(_)
Split(text) ==
    IF text = <<>> THEN << <<>> >>
    ELSE LET rest == Split(Tail(text))
         IN  IF Head(text) \in {",", ";"} THEN << <<>> >> \o rest
             ELSE << <<Head(text)>> \o rest[1] >> \o Tail(rest)

\* str.startsWith('q')
StartsWithQ(str) == Len(str) > 0 /\ str[1] = "q"

\* array.filter(str => !str.startsWith('q'))
RECURSIVE FilterNotQ(_)
FilterNotQ(segs) ==
    IF segs = <<>> THEN <<>>
    ELSE (IF StartsWithQ(Head(segs)) THEN <<>> ELSE <<Head(segs)>>)
             \o FilterNotQ(Tail(segs))

\* withLocale(request); header.present is request.headers.get(...) !== null
withLocale(header) ==
    IF ~header.present \/ header.text = <<>> THEN <<EN_US>>
    ELSE FilterNotQ(Split(header.text))

WithLocaleCall ==
    /\ ~localeCall.called
    /\ localeCall' = [localeCall EXCEPT !.called = TRUE,
                                        !.result = withLocale(localeCall.header)]
    /\ UNCHANGED <<flowVars, boundaryVars, headerVars>>

InitLocale ==
    /\ IdleFlow /\ IdleBoundary /\ IdleHeaders
    /\ \/ localeCall = NoLocale
       \/ \E es \in HeaderLists :
             localeCall = [called |-> FALSE, entries |-> es,
                           header |-> [present |-> TRUE, text |-> HeaderText(es)],
                           result |-> <<>>]

SpecLocale == InitLocale /\ [][WithLocaleCall]_vars

----------------------------------------------------------------------------
\* Properties

ThemeValues == {Str("dark"), Str("light")}
Observable == ThemeValues \cup {Null}

\* What getTheme() gives for a request carrying `cookie`
ThemeOf(cookie) == getTheme(getSession(cookie))

\* C1: a call of setThemeAction whose body is JSON null, is not JSON, or whose
\* theme field is no Theme returns a redirect to the request's path without a
\* Set-Cookie header, surfaces no error and leaves the session's theme as it was.
C1_InvalidBodyRedirects ==
    LET a == lastAction
        req == a.call.request
        invalid == \/ req.body.kind \in {"null", "malformed"}
                   \/ req.body.kind # "object"
                   \/ req.body.theme \notin ThemeValues
    IN  (a.stage \in {"returned", "applied"} /\ invalid) =>
            /\ a.call.result.kind = "redirect"
            /\ a.call.result.location = req.path
            /\ ~a.call.result.hasSetCookie
            /\ a.stage = "applied" => ThemeOf(a.jar) = ThemeOf(req.cookie)

\* C2: after setThemeAction with body {theme: t}, t dark or light, a session
\* built from the returned Set-Cookie value reads t, whatever the session was
\* before; with a theme outside {dark, light} the session reads what it read
\* before the call.
C2_SetThenRead ==
    LET a == lastAction
        req == a.call.request
        res == a.call.result
    IN  (a.stage \in {"returned", "applied"} /\ req.body.kind = "object") =>
            IF req.body.theme \in ThemeValues
            THEN /\ res.hasSetCookie
                 /\ (lastRead.stage = "read" /\ lastRead.cookie = res.setCookie)
                        => lastRead.theme = req.body.theme
            ELSE a.stage = "applied" =>
                 /\ ThemeOf(a.jar) = ThemeOf(req.cookie)
                 /\ (lastRead.stage = "read" /\ lastRead.cookie = a.jar)
                        => lastRead.theme = ThemeOf(req.cookie)

C2_Witness ==
    /\ lastAction.stage = "applied"
    /\ lastAction.call.request.body = ThemeBody(Str("light"))
    /\ lastAction.call.request.cookie.valid
    /\ lastAction.call.request.cookie.theme = Str("dark")
    /\ lastRead.stage = "read"
    /\ lastRead.cookie = lastAction.call.result.setCookie
    /\ lastRead.cookie = lastAction.jar
    /\ lastRead.theme = Str("light")

\* C3: whatever cookies are read, bodies are sent to the action, ssrTheme
\* values are given to the provider and OS changes happen, the theme read by
\* getTheme(), the theme the action writes into the session and the theme the
\* provider holds are dark, light or null.
C3_ObservableTheme ==
    /\ theme \in Observable
    /\ lastRead.theme \in Observable
    /\ lastAction.call.pc = "commit" => lastAction.call.session.theme \in Observable
    /\ lastAction.call.result.hasSetCookie =>
           lastAction.call.result.setCookie.theme \in Observable

C3_Witness ==
    /\ lastRead.stage = "read" /\ lastRead.cookie.valid
    /\ lastRead.cookie.theme = Str("blue")
    /\ lastAction.stage = "applied"
    /\ lastAction.call.request.body = ThemeBody(Str("blue"))
    /\ provSsr = Str("blue")
    /\ phase = "mounted"
    /\ theme = Str("dark")

\* The POST the effect issues for theme t when `n` POSTs were issued before
PostOf(t, n) ==
    [id |-> n + 1,
     call |-> NewCall([path |-> ActionPath, cookie |-> browserCookie,
                       body |-> ThemeBody(t)])]

\* C4: the initial render and the mount issue no POST; while the provider is
\* mounted every change of the theme issues exactly one POST carrying the new
\* theme, and a step that leaves the theme unchanged issues none. A change
\* commits the theme and leaves its effect to run; the POST is issued when that
\* effect runs, once, with the committed theme, and by nothing else.
C4_PostPerChange ==
    /\ [](effectPending => phase = "mounted")
    /\ [][/\ (phase = "mounted" /\ phase' = "mounted" /\ theme' # theme)
                 => effectPending'
          /\ log' # log =>
                 /\ effectPending /\ phase = "mounted"
                 /\ log' = Append(log, [theme |-> theme, visit |-> Len(visits)])
                 /\ \E r \in inflight' : r = PostOf(theme, Len(log))
                 /\ Cardinality(inflight') = Cardinality(inflight) + 1
                 /\ effectPending' => theme' # theme
          /\ log' = log =>
                 /\ Cardinality(inflight') <= Cardinality(inflight)
                 /\ effectPending => (effectPending' /\ theme' = theme)]_vars

C4_Witness ==
    /\ phase = "mounted"
    /\ ~effectPending
    /\ Len(log) = 2
    /\ log[1].theme = Null
    /\ log[2].theme = Str("light")
    /\ theme = Str("light")
    /\ Cardinality(inflight) = 2
    /\ osDark

\* C5: a visitor without a cookie whose OS prefers dark gets the inline script,
\* which applies dark, and a provider whose initial theme is dark; once the
\* Set-Cookie of a set-theme call with {theme: "light"} is in the browser, the
\* next request reads light and its response has no inline script.
C5_EndToEnd ==
    \A i \in DOMAIN visits :
        LET v == visits[i]
        IN  /\ ~v.cookie.present =>
                  /\ v.served => v.script
                  /\ (v.loaded /\ v.osLoad) => v.cls = "dark"
                  /\ (v.hydrated /\ v.osHydrate) => v.initial = Str("dark")
            /\ (v.via = Str("light") /\ v.served) =>
                  /\ v.ssrTheme = Str("light")
                  /\ ~v.script

C5_Witness ==
    /\ Len(visits) = 2
    /\ ~visits[1].cookie.present
    /\ visits[1].loaded /\ visits[1].osLoad
    /\ visits[1].script /\ visits[1].cls = "dark"
    /\ visits[1].hydrated /\ visits[1].osHydrate
    /\ visits[1].initial = Str("dark")
    /\ Len(log) = 1
    /\ log[1] = [theme |-> Str("light"), visit |-> 1]
    /\ visits[2].via = Str("light")
    /\ visits[2].loaded
    /\ visits[2].ssrTheme = Str("light")
    /\ ~visits[2].script

MetaFor(t) == IF t = Str("light") THEN "light dark" ELSE "dark light"

\* C6 as stated: the script is rendered exactly when ssrTheme is null, the
\* meta tag is rendered in every render, and with a known server theme the
\* meta tag lists that theme first.
C6_MetaReflectsServerTheme ==
    doc # NoDoc =>
        /\ doc.script <=> provSsr = Null
        /\ doc.meta \in {"dark light", "light dark"}
        /\ provSsr \in ThemeValues => doc.meta = MetaFor(provSsr)

\* C6 amended: the script is rendered exactly when ssrTheme is null, and the
\* meta tag of every render lists the provider's current theme first (dark for
\* a null theme); that theme is the known server theme in the server render
\* and in the first client render.
C6_MetaReflectsProviderTheme ==
    doc # NoDoc =>
        /\ doc.script <=> provSsr = Null
        /\ doc.meta = MetaFor(theme)
        /\ (phase \in {"served", "response", "rendered"} /\ provSsr \in ThemeValues)
               => theme = provSsr

C6_Witness ==
    /\ phase = "mounted"
    /\ provSsr = Str("light")
    /\ theme = Str("dark")
    /\ doc = [meta |-> "dark light", script |-> FALSE]

\* C9: the change handler is registered exactly while the provider is mounted;
\* an OS change sets the theme to the new preference while it is registered,
\* and changes neither the theme nor the POSTs issued when it is not.
C9_SubscribedWhileMounted ==
    /\ [](subscribed <=> phase = "mounted")
    /\ [][osDark' # osDark =>
             IF phase = "mounted"
             THEN theme' = (IF osDark' THEN Str("dark") ELSE Str("light"))
             ELSE /\ theme' = theme /\ log' = log /\ inflight' = inflight
                  /\ effectPending' = effectPending]_vars

C9_Witness ==
    /\ phase = "unmounted"
    /\ ~subscribed
    /\ provSsr = Str("light")
    /\ log = <<[theme |-> Str("dark"), visit |-> 1]>>
    /\ theme = Str("dark")
    /\ ~osDark

\* The POSTs of the current provider, all carrying dark or light, have all been
\* issued and handled and their responses applied
Settled ==
    /\ phase \in {"mounted", "unmounted"}
    /\ ~effectPending
    /\ Len(log) > 0
    /\ \A i \in DOMAIN log : log[i].theme \in ThemeValues /\ log[i].visit = Len(visits)
    /\ inflight = {}
    /\ responses = {}

\* C10 as stated: once every POST of the provider has been handled and its
\* Set-Cookie applied, in whatever order, the cookie holds the provider's theme.
C10_CookieEqualsProviderTheme ==
    Settled => (browserCookie.valid /\ browserCookie.theme = theme)

\* C10 amended: once every POST has been handled and its Set-Cookie applied,
\* the cookie holds the theme of the POST whose Set-Cookie was applied last;
\* it is the provider's theme when that POST is the one issued last.
C10_LastAppliedWins ==
    Settled =>
        /\ lastApplied \in DOMAIN log
        /\ browserCookie.valid
        /\ browserCookie.theme = log[lastApplied].theme
        /\ lastApplied = Len(log) => browserCookie.theme = theme

C10_Witness ==
    /\ Settled
    /\ Len(log) = 2
    /\ log[1].theme # log[2].theme
    /\ lastApplied = 2
    /\ browserCookie.theme = theme

NamesOf(es, nm) == {es[i].value : i \in {j \in DOMAIN es : Lower(es[j].name) = nm}}

RECURSIVE OtherHeaders(_)
OtherHeaders(es) ==
    IF es = <<>> THEN <<>>
    ELSE (IF Lower(Head(es).name) = "set-cookie" THEN <<>> ELSE <<Head(es)>>)
             \o OtherHeaders(Tail(es))

\* C7: with a non-empty value, every Set-Cookie value the container held is
\* still in it, the new value is in it and the other headers are unchanged,
\* for each shape; with an empty or null value the same container comes back
\* with its contents unchanged.
C7_MergeAppends ==
    mergeCall.called =>
        LET before == mergeCall.before.entries
            after == heap[mergeCall.ref].entries
        IN  /\ mergeCall.ret = mergeCall.ref
            /\ IF mergeCall.value \in {Null, Str("")}
               THEN heap[mergeCall.ref] = mergeCall.before
               ELSE /\ NamesOf(before, "set-cookie") \subseteq NamesOf(after, "set-cookie")
                    /\ mergeCall.value.v \in NamesOf(after, "set-cookie")
                    /\ OtherHeaders(after) = OtherHeaders(before)

\* C8: without the header withLocale returns ['en-US']; with it, the result is
\* the header's locale tags in order, every q= segment dropped and no tag
\* dropped or altered.
C8_LocaleTags ==
    localeCall.called =>
        IF ~localeCall.header.present
        THEN localeCall.result = << <<"e", "n", "-", "U", "S">> >>
        ELSE localeCall.result =
                 [i \in DOMAIN localeCall.entries |-> localeCall.entries[i].tag]

====
